---- MODULE Spec2Model ----
(***************************************************************************)
(* Verification model of the mortgage calculator's bank State Store: the   *)
(* banks reducer, the asynchronous operations fetchBanks / addNewBank /    *)
(* deleteBank that dispatch to it, and the add-bank form's duplicate-name  *)
(* check in front of addNewBank.                                           *)
(***************************************************************************)
EXTENDS Integers, Sequences, FiniteSets, TLC

(* ------------------------------ bounds --------------------------------- *)
\* number of operation runs (thunks) started in one behaviour
MaxOps == 2
\* ids the backing service hands out: 1..MaxId
MaxId == 2
\* longest collection the backing service returns from a fetch
MaxFetchLen == 2
\* longest collection handed to an export function
MaxBanks == 2
\* longest array in a JSON file handed to the JSON importer
MaxElems == 2
\* most data rows in a CSV file handed to the CSV importer
MaxRows == 2
\* clicks and selections of the user in the FileManager dialog
MaxEvents == 5
\* base-1000 digits kept after the point by the arithmetic of the calculator
FractionLimbs == 6
MaxFetches == 3

(* ------------------------------ values --------------------------------- *)
\* JavaScript null / undefined
Null == "null"

\* bank names the user types and the service stores; they differ by case only
Names == {"Alpha", "ALPHA"}

Ids == 1..MaxId

\* error messages of the backing service
Messages == {"Network error"}

\* a bank record, reduced to the two fields the store and the form look at
Bank == [id : Ids, BankName : Names]

\* the collections the backing service may answer a fetch with: records with
\* pairwise different ids and names
FetchResults ==
  { s \in UNION { [1..n -> Bank] : n \in 0..MaxFetchLen } :
      \A i, j \in DOMAIN s :
        i # j => s[i].id # s[j].id /\ s[i].BankName # s[j].BankName }

(* ---------------------------- action types ----------------------------- *)
INIT_TYPE == "INIT"
FETCH_PENDING == "banks/fetchBanks/pending"
FETCH_FULFILLED == "banks/fetchBanks/fulfilled"
FETCH_REJECTED == "banks/fetchBanks/rejected"
ADD_PENDING == "banks/addBank/pending"
ADD_FULFILLED == "banks/addBank/fulfilled"
ADD_REJECTED == "banks/addBank/rejected"
DELETE_PENDING == "banks/deleteBank/pending"
DELETE_FULFILLED == "banks/deleteBank/fulfilled"
DELETE_REJECTED == "banks/deleteBank/rejected"

(* --------------------------- action creators --------------------------- *)
fetchBanksPending == [type |-> FETCH_PENDING, payload |-> Null]
fetchBanksFulfilled(banksList) == [type |-> FETCH_FULFILLED, payload |-> banksList]
fetchBanksRejected(error) == [type |-> FETCH_REJECTED, payload |-> error]
addBankPending == [type |-> ADD_PENDING, payload |-> Null]
addBankFulfilled(bank) == [type |-> ADD_FULFILLED, payload |-> bank]
addBankRejected(error) == [type |-> ADD_REJECTED, payload |-> error]
deleteBankPending == [type |-> DELETE_PENDING, payload |-> Null]
deleteBankFulfilled(id) == [type |-> DELETE_FULFILLED, payload |-> id]
deleteBankRejected(error) == [type |-> DELETE_REJECTED, payload |-> error]

(* ------------------------------- reducer ------------------------------- *)
initialState == [items |-> <<>>, loading |-> FALSE, error |-> Null]

\* case "banks/fetchBanks/pending": { ...state, loading: true, error: null }
fetchPendingCase(state) ==
  [state EXCEPT !.loading = TRUE, !.error = Null]

\* variant: the first collection to arrive is kept (first-write-wins)
fetchFulfilledCase_keepFirst(state, payload) ==
  [state EXCEPT !.items = IF state.items = <<>> THEN payload ELSE state.items,
                !.loading = FALSE]

\* case "banks/fetchBanks/fulfilled": { ...state, items: payload, loading: false }
fetchFulfilledCase(state, payload) ==
  [state EXCEPT !.items = payload, !.loading = FALSE]

\* variant: a failed fetch also drops the collection
fetchRejectedCase_dropItems(state, payload) ==
  [items |-> <<>>, loading |-> FALSE, error |-> payload]

\* case "banks/fetchBanks/rejected": { ...state, error: payload, loading: false }
fetchRejectedCase(state, payload) ==
  [state EXCEPT !.error = payload, !.loading = FALSE]

\* add / delete pending: the flag is raised, nothing else moves
addPendingCase(state) ==
  [state EXCEPT !.loading = TRUE]

\* variant: the new bank is put in front of the collection
addFulfilledCase_prepend(state, payload) ==
  [items |-> <<payload>> \o state.items, loading |-> FALSE, error |-> Null]

\* add fulfilled: items: [...items, payload], loading: false, error: null
addFulfilledCase(state, payload) ==
  [items |-> Append(state.items, payload), loading |-> FALSE, error |-> Null]

addRejectedCase(state, payload) ==
  [state EXCEPT !.error = payload, !.loading = FALSE]

deletePendingCase(state) ==
  [state EXCEPT !.loading = TRUE]

\* variant: the filter keeps the deleted record and drops the others
deleteFulfilledCase_inverted(state, payload) ==
  [items |-> SelectSeq(state.items, LAMBDA b : b.id = payload),
   loading |-> FALSE, error |-> Null]

\* delete fulfilled: items.filter(bank => bank.id !== payload)
deleteFulfilledCase(state, payload) ==
  [items |-> SelectSeq(state.items, LAMBDA b : b.id # payload),
   loading |-> FALSE, error |-> Null]

deleteRejectedCase(state, payload) ==
  [state EXCEPT !.error = payload, !.loading = FALSE]

banksReducer(state, action) ==
  CASE action.type = FETCH_PENDING -> fetchPendingCase(state)
    [] action.type = FETCH_FULFILLED -> fetchFulfilledCase(state, action.payload)
    [] action.type = FETCH_REJECTED -> fetchRejectedCase(state, action.payload)
    [] action.type = ADD_PENDING -> addPendingCase(state)
    [] action.type = ADD_FULFILLED -> addFulfilledCase(state, action.payload)
    [] action.type = ADD_REJECTED -> addRejectedCase(state, action.payload)
    [] action.type = DELETE_PENDING -> deletePendingCase(state)
    [] action.type = DELETE_FULFILLED -> deleteFulfilledCase(state, action.payload)
    [] action.type = DELETE_REJECTED -> deleteRejectedCase(state, action.payload)
    [] OTHER -> state

(* ------------------------------ operations ----------------------------- *)
\* the first action a run of an operation dispatches
pendingActionOf(kind) ==
  CASE kind = "fetchBanks" -> fetchBanksPending
    [] kind = "addNewBank" -> addBankPending
    [] kind = "deleteBank" -> deleteBankPending

\* variant: a failed service call is answered with the pending action again
settledActionOf_noRejected(kind, arg, outcome) ==
  IF ~outcome.ok THEN pendingActionOf(kind)
  ELSE CASE kind = "fetchBanks" -> fetchBanksFulfilled(outcome.value)
         [] kind = "addNewBank" -> addBankFulfilled(outcome.value)
         [] kind = "deleteBank" -> deleteBankFulfilled(arg)

\* the action a run dispatches when the service call settles:
\* outcome = [ok |-> TRUE, value |-> service result]
\*         | [ok |-> FALSE, value |-> error message]
settledActionOf(kind, arg, outcome) ==
  CASE kind = "fetchBanks" ->
         IF outcome.ok THEN fetchBanksFulfilled(outcome.value)
                       ELSE fetchBanksRejected(outcome.value)
    [] kind = "addNewBank" ->
         IF outcome.ok THEN addBankFulfilled(outcome.value)
                       ELSE addBankRejected(outcome.value)
    [] kind = "deleteBank" ->
         IF outcome.ok THEN deleteBankFulfilled(arg)
                       ELSE deleteBankRejected(outcome.value)

(* ------------------------------ add form ------------------------------- *)
\* String.prototype.toLowerCase on the names of the model
toLowerCase(name) == IF name \in {"Alpha", "ALPHA"} THEN "alpha" ELSE name

\* variant: the comparison ignores case
isDuplicateName_ignoreCase(name, items) ==
  \E k \in DOMAIN items : toLowerCase(items[k].BankName) = toLowerCase(name)

\* banks.some(bank => bank.BankName === name)
isDuplicateName(name, items) ==
  \E k \in DOMAIN items : items[k].BankName = name

(* -------------------------------- state -------------------------------- *)
VARIABLES
  banks,       \* the store slice { items, loading, error }
  ops,         \* the operation runs, in the order they were started
  lastAction,  \* the action dispatched last, with the type dispatched before it
  prev,        \* the store slice before lastAction was applied
  form,        \* the last submission of the add-bank form
  call,        \* the call of a utility function under examination
  fm,          \* the state and the props of the FileManager component
  tasks,       \* the file reads that FileManager has started and not seen end
  log,         \* what FileManager has asked of its collaborators so far
  fetcher,     \* the state and the props of the DataFetcher component
  fetches      \* the fetches DataFetcher has started, and its last step

vars == <<banks, ops, lastAction, prev, form, call, fm, tasks, log, fetcher, fetches>>

\* the variables of the store, and the call variable when no call is examined
storeVars == <<banks, ops, lastAction, prev, form>>
fmVars == <<fm, tasks, log>>
dfVars == <<fetcher, fetches>>

\* this.state of DataFetcher as the constructor sets it
dataFetcherState == [data |-> "null", loading |-> FALSE, error |-> "null"]

\* no error
NoRejection == [message |-> "(none)"]

\* the fetchFunction prop of DataFetcher when none is given
NoFunction == [name |-> "(none)", throws |-> FALSE, value |-> "null", error |-> NoRejection]

\* DataFetcher as constructed, without a fetchFunction, and not mounted
DataFetcherIdle ==
  /\ fetcher = [data |-> dataFetcherState.data, loading |-> dataFetcherState.loading,
                error |-> dataFetcherState.error, fetchFunction |-> NoFunction,
                mounted |-> FALSE]
  /\ fetches = [pending |-> {}, started |-> 0, failed |-> FALSE,
                last |-> [kind |-> "(none)", fn |-> NoFunction, value |-> "null",
                          error |-> NoRejection, before |-> dataFetcherState]]

\* FileManager as rendered first: closed, nothing selected, nothing asked
FileManagerIdle ==
  /\ fm = [isOpen |-> FALSE, banks |-> <<>>, isExporting |-> FALSE,
           isImporting |-> FALSE, importedBanks |-> <<>>, selectedFile |-> <<>>,
           filePreview |-> <<>>, error |-> <<>>, success |-> <<>>]
  /\ tasks = {}
  /\ log = [events |-> 0, last |-> "(none)", file |-> <<>>, invoked |-> {},
            resolved |-> <<>>, applied |-> <<>>]
IdleCall == [fn |-> "(none)", arg |-> Null, origin |-> Null, done |-> FALSE, result |-> Null]

NoSubmit == "(none)"

\* the store as created, the add-bank form untouched
StoreInit ==
  /\ banks = initialState
  /\ ops = <<>>
  /\ lastAction = [type |-> INIT_TYPE, payload |-> Null, before |-> INIT_TYPE]
  /\ prev = initialState
  /\ form = [name |-> NoSubmit, error |-> Null, itemsAt |-> <<>>,
             dispatched |-> FALSE, itemsAfter |-> <<>>]

Init ==
  /\ StoreInit
  /\ call = IdleCall
  /\ FileManagerIdle
  /\ DataFetcherIdle

\* store.dispatch(action)
Dispatch(action) ==
  /\ banks' = banksReducer(banks, action)
  /\ prev' = banks
  /\ lastAction' = [type |-> action.type, payload |-> action.payload,
                    before |-> lastAction.type]

\* number of start and settle events so far: the clock that stamps the runs
Clock == Len(ops) + Cardinality({i \in DOMAIN ops : ops[i].status # "pending"})

\* a run starts: dispatch(pending), then the service call is in flight
StartRun(kind, arg) ==
  /\ Len(ops) < MaxOps
  /\ ops' = Append(ops, [kind |-> kind, arg |-> arg, status |-> "pending",
                         outcome |-> [ok |-> FALSE, value |-> Null],
                         startedAt |-> Clock + 1, doneAt |-> 0,
                         log |-> <<pendingActionOf(kind)>>])
  /\ Dispatch(pendingActionOf(kind))

\* the service call of run i settles and the run dispatches its last action
SettleRun(i, outcome) ==
  /\ i \in DOMAIN ops
  /\ ops[i].status = "pending"
  /\ LET action == settledActionOf(ops[i].kind, ops[i].arg, outcome)
     IN /\ ops' = [ops EXCEPT ![i].status = IF outcome.ok THEN "fulfilled" ELSE "rejected",
                              ![i].outcome = outcome,
                              ![i].doneAt = Clock + 1,
                              ![i].log = Append(@, action)]
        /\ Dispatch(action)

\* dispatch(fetchBanks())
FetchBanks ==
  /\ StartRun("fetchBanks", Null)
  /\ UNCHANGED <<form, call, fmVars, dfVars>>

\* the service answers a fetch with a collection
FetchBanksResolves ==
  \E i \in DOMAIN ops, list \in FetchResults :
    /\ ops[i].kind = "fetchBanks"
    /\ SettleRun(i, [ok |-> TRUE, value |-> list])
    /\ UNCHANGED <<form, call, fmVars, dfVars>>

\* submit of the add-bank form with its fields filled in
SubmitAddForm ==
  \E name \in Names :
    IF isDuplicateName(name, banks.items)
    THEN /\ form' = [name |-> name, error |-> "duplicate", itemsAt |-> banks.items,
                     dispatched |-> FALSE, itemsAfter |-> banks.items]
         /\ UNCHANGED <<banks, ops, lastAction, prev, call, fmVars, dfVars>>
    ELSE /\ StartRun("addNewBank", name)
         /\ form' = [name |-> name, error |-> Null, itemsAt |-> banks.items,
                     dispatched |-> TRUE, itemsAfter |-> banks'.items]
         /\ UNCHANGED <<call, fmVars, dfVars>>

\* the service stores the new bank and answers with it, id assigned
AddBankResolves ==
  \E i \in DOMAIN ops, id \in Ids :
    /\ ops[i].kind = "addNewBank"
    /\ SettleRun(i, [ok |-> TRUE, value |-> [id |-> id, BankName |-> ops[i].arg]])
    /\ UNCHANGED <<form, call, fmVars, dfVars>>

\* dispatch(deleteBank(id))
DeleteBank ==
  \E id \in Ids :
    /\ StartRun("deleteBank", id)
    /\ UNCHANGED <<form, call, fmVars, dfVars>>

DeleteBankResolves ==
  \E i \in DOMAIN ops :
    /\ ops[i].kind = "deleteBank"
    /\ SettleRun(i, [ok |-> TRUE, value |-> "ok"])
    /\ UNCHANGED <<form, call, fmVars, dfVars>>

\* the service call of any run fails
ServiceRejects ==
  \E i \in DOMAIN ops, msg \in Messages :
    /\ SettleRun(i, [ok |-> FALSE, value |-> msg])
    /\ UNCHANGED <<form, call, fmVars, dfVars>>

Next ==
  \/ FetchBanks
  \/ FetchBanksResolves
  \/ SubmitAddForm
  \/ AddBankResolves
  \/ DeleteBank
  \/ DeleteBankResolves
  \/ ServiceRejects

Spec == Init /\ [][Next]_vars

(* ------------------------- helpers of the claims ----------------------- *)
FetchRuns == {i \in DOMAIN ops : ops[i].kind = "fetchBanks"}

FetchInFlight == \E i \in FetchRuns : ops[i].status = "pending"

\* runs i < j were in flight at the same time: j started before i settled
Overlapped(i, j) ==
  /\ i < j
  /\ ops[i].status # "pending" => ops[j].startedAt < ops[i].doneAt

\* two or more fetches were in flight together and every fetch has been
\* fulfilled, the last of them by the action dispatched last
OverlappingFetchesAllFulfilled ==
  /\ \E i, j \in FetchRuns : Overlapped(i, j)
  /\ \A i \in FetchRuns : ops[i].status = "fulfilled"
  /\ lastAction.type = FETCH_FULFILLED

\* the fetch started last, and the fetch fulfilled last
LastStartedFetch == CHOOSE i \in FetchRuns : \A j \in FetchRuns : j <= i
LastFulfilledFetch ==
  CHOOSE i \in FetchRuns : \A j \in FetchRuns : ops[j].doneAt <= ops[i].doneAt

\* items is old with x added at the end
IsAppended(items, old, x) ==
  /\ Len(items) = Len(old) + 1
  /\ items[Len(items)] = x
  /\ \A k \in DOMAIN old : items[k] = old[k]

PendingTypeOf(kind) ==
  CASE kind = "fetchBanks" -> FETCH_PENDING
    [] kind = "addNewBank" -> ADD_PENDING
    [] kind = "deleteBank" -> DELETE_PENDING

FulfilledTypeOf(kind) ==
  CASE kind = "fetchBanks" -> FETCH_FULFILLED
    [] kind = "addNewBank" -> ADD_FULFILLED
    [] kind = "deleteBank" -> DELETE_FULFILLED

RejectedTypeOf(kind) ==
  CASE kind = "fetchBanks" -> FETCH_REJECTED
    [] kind = "addNewBank" -> ADD_REJECTED
    [] kind = "deleteBank" -> DELETE_REJECTED

(* -------------------------------- claims ------------------------------- *)

\* C1: after fetchBanksFulfilled(list) is applied, in whatever state, the
\* collection is exactly list, loading is false and error is null.
C1_FetchFulfilledReplacesAndClears ==
  lastAction.type = FETCH_FULFILLED =>
    /\ banks.items = lastAction.payload
    /\ banks.loading = FALSE
    /\ banks.error = Null

\* C2: after fetchBanksRejected(message) is applied, error is the message,
\* loading is false and the collection is the one from before the rejection.
C2_FetchRejectedKeepsItems ==
  lastAction.type = FETCH_REJECTED =>
    /\ banks.error = lastAction.payload
    /\ banks.loading = FALSE
    /\ banks.items = prev.items

\* C2 witness: a fetch was rejected while the store held a collection and
\* was loading.
C2_Witness ==
  /\ lastAction.type = FETCH_REJECTED
  /\ prev.items # <<>>
  /\ prev.loading

\* C3: no two records of the collection have the same name.
C3_NamesUnique ==
  \A i, j \in DOMAIN banks.items :
    i # j => banks.items[i].BankName # banks.items[j].BankName

\* C4: a submitted name that exactly equals the name of a record in the
\* collection is rejected as a duplicate, nothing is dispatched and the
\* collection is left as it was; a name that differs from every record's name
\* (if only by case) is not rejected as a duplicate and is dispatched.
C4_DuplicateNameRejected ==
  form.name # NoSubmit =>
    LET exists == \E k \in DOMAIN form.itemsAt : form.itemsAt[k].BankName = form.name
    IN /\ exists => /\ form.error = "duplicate"
                    /\ ~form.dispatched
                    /\ Len(form.itemsAfter) = Len(form.itemsAt)
       /\ ~exists => /\ form.error # "duplicate"
                     /\ form.dispatched

\* C4 witness: a name already in the collection was submitted and rejected
\* while the collection also holds no record of the other spelling.
C4_Witness ==
  /\ form.name # NoSubmit
  /\ form.error = "duplicate"
  /\ Len(form.itemsAt) = 1
  /\ form.itemsAt[1].BankName = form.name

\* C4 witness of the other half: a name that differs only by case from the
\* one record of the collection was submitted and dispatched.
C4_WitnessOtherCase ==
  /\ form.name # NoSubmit
  /\ form.dispatched
  /\ Len(form.itemsAt) = 1
  /\ form.itemsAt[1].BankName # form.name

\* C5 as stated: once overlapping fetches have all resolved, the collection
\* is the result of the fetch that was started last.
C5_LastStartedFetchWins ==
  OverlappingFetchesAllFulfilled =>
    banks.items = ops[LastStartedFetch].outcome.value

\* C5 as amended: once overlapping fetches have all resolved, the collection
\* is the result of the fetch that was fulfilled last, whichever started last.
C5_LastFulfilledFetchWins ==
  OverlappingFetchesAllFulfilled =>
    banks.items = ops[LastFulfilledFetch].outcome.value

\* C5 witness: two overlapping fetches resolved in the reverse of their start
\* order with different results.
C5_Witness ==
  /\ OverlappingFetchesAllFulfilled
  /\ LastFulfilledFetch # LastStartedFetch
  /\ ops[LastFulfilledFetch].outcome.value # ops[LastStartedFetch].outcome.value

\* C6: addBankFulfilled(bank) applied while a fetch is in flight appends the
\* bank and leaves loading true.
C6_AddDuringFetchKeepsLoading ==
  (lastAction.type = ADD_FULFILLED /\ FetchInFlight) =>
    /\ IsAppended(banks.items, prev.items, lastAction.payload)
    /\ banks.loading = TRUE

C8_WitnessAbsentId ==
  /\ lastAction.type = DELETE_FULFILLED
  /\ prev.items # <<>>
  /\ banks.items = prev.items

\* C9: fetchBanksPending raises loading and leaves error and the collection
\* as they were.
C9_FetchPendingKeepsError ==
  lastAction.type = FETCH_PENDING =>
    /\ banks.loading = TRUE
    /\ banks.error = prev.error
    /\ banks.items = prev.items

\* C10: every run of an operation has dispatched its pending action first and
\* then, once settled, exactly one more action: fulfilled with the service
\* result (the deleted id for deleteBank) or rejected with the error message.
C10_PendingThenOneSettled ==
  \A i \in DOMAIN ops :
    LET run == ops[i]
    IN /\ Len(run.log) \in {1, 2}
       /\ run.log[1].type = PendingTypeOf(run.kind)
       /\ (Len(run.log) = 1) <=> (run.status = "pending")
       /\ Len(run.log) = 2 =>
            \/ /\ run.outcome.ok
               /\ run.status = "fulfilled"
               /\ run.log[2].type = FulfilledTypeOf(run.kind)
               /\ run.log[2].payload =
                    IF run.kind = "deleteBank" THEN run.arg ELSE run.outcome.value
            \/ /\ ~run.outcome.ok
               /\ run.status = "rejected"
               /\ run.log[2].type = RejectedTypeOf(run.kind)
               /\ run.log[2].payload = run.outcome.value

\* C10 witness: one run ended fulfilled and another ended rejected.
C10_Witness ==
  /\ \E i \in DOMAIN ops : ops[i].status = "fulfilled" /\ ops[i].kind = "deleteBank"
  /\ \E i \in DOMAIN ops : ops[i].status = "rejected"


(* ====================================================================== *)
(* File utilities (src/utils/file-utils.js)                                *)
(* ====================================================================== *)

(* ------------------------------- text ---------------------------------- *)
\* A text is a sequence of one-character strings.
Digits == <<"0", "1", "2", "3", "4", "5", "6", "7", "8", "9">>
IsDigit(c) == \E d \in DOMAIN Digits : Digits[d] = c
DigitValue(c) == (CHOOSE d \in DOMAIN Digits : Digits[d] = c) - 1
IsSpace(c) == c \in {" ", "\t", "\r"}

RECURSIVE trimStart(_)
trimStart(t) == IF t # <<>> /\ IsSpace(Head(t)) THEN trimStart(Tail(t)) ELSE t

RECURSIVE trimEnd(_)
trimEnd(t) ==
  IF t # <<>> /\ IsSpace(t[Len(t)]) THEN trimEnd(SubSeq(t, 1, Len(t) - 1)) ELSE t

\* String.prototype.trim
trim(t) == trimEnd(trimStart(t))

\* String.prototype.split(sep), sep one character
RECURSIVE split(_, _)
split(t, sep) ==
  IF \E i \in DOMAIN t : t[i] = sep
  THEN LET i == CHOOSE j \in DOMAIN t : t[j] = sep /\ \A k \in 1..(j - 1) : t[k] # sep
       IN <<SubSeq(t, 1, i - 1)>> \o split(SubSeq(t, i + 1, Len(t)), sep)
  ELSE <<t>>

\* Array.prototype.join(sep), the parts being texts
RECURSIVE join(_, _)
join(parts, sep) ==
  IF parts = <<>> THEN <<>>
  ELSE IF Len(parts) = 1 THEN parts[1]
  ELSE parts[1] \o <<sep>> \o join(Tail(parts), sep)

(* ----------------------------- JS values ------------------------------- *)
\* A number is held in tenths (45 is 4.5); s is the text of a string value.
Num(n) == [t |-> "number", n |-> n, s |-> <<>>]
NaN == [t |-> "NaN", n |-> 0, s |-> <<>>]
Str(text) == [t |-> "string", n |-> 0, s |-> text]
Undefined == [t |-> "undefined", n |-> 0, s |-> <<>>]
JSNull == [t |-> "null", n |-> 0, s |-> <<>>]
JSTrue == [t |-> "true", n |-> 0, s |-> <<>>]
JSFalse == [t |-> "false", n |-> 0, s |-> <<>>]
Infinity == [t |-> "Infinity", n |-> 0, s |-> <<>>]

\* typeof v
typeof(v) ==
  CASE v.t \in {"number", "NaN"} -> "number"
    [] v.t = "string" -> "string"
    [] v.t \in {"true", "false"} -> "boolean"
    [] v.t = "undefined" -> "undefined"
    [] OTHER -> "object"

\* !v
Falsy(v) ==
  \/ v.t \in {"undefined", "null", "false", "NaN"}
  \/ v.t = "number" /\ v.n = 0
  \/ v.t = "string" /\ v.s = <<>>

\* number of digits at the start of a text
RECURSIVE leadingDigits(_)
leadingDigits(t) ==
  IF t # <<>> /\ IsDigit(Head(t)) THEN 1 + leadingDigits(Tail(t)) ELSE 0

\* value of a text of digits
RECURSIVE digitsValue(_)
digitsValue(t) ==
  IF t = <<>> THEN 0 ELSE digitsValue(SubSeq(t, 1, Len(t) - 1)) * 10 + DigitValue(t[Len(t)])

\* A literal read at the start of a text: len characters long (0 when the
\* text does not start with a literal), of the given value in tenths.
NoLiteral == [len |-> 0, value |-> 0]

\* digits before the point only: k of them
wholeLiteral(body, k) ==
  IF k = 0 THEN NoLiteral
  ELSE [len |-> k, value |-> digitsValue(SubSeq(body, 1, k)) * 10]

\* k digits, a point, and after digits, of which the first one is kept
pointLiteral(body, k, after) ==
  IF k = 0 /\ after = 0 THEN NoLiteral
  ELSE [len |-> k + 1 + after,
        value |-> digitsValue(SubSeq(body, 1, k)) * 10
                  + (IF after > 0 THEN DigitValue(body[k + 2]) ELSE 0)]

\* the literal at the start of a text that starts with k digits
literalAfterDigits(body, k, fraction) ==
  IF fraction /\ Len(body) > k /\ body[k + 1] = "."
  THEN pointLiteral(body, k, leadingDigits(SubSeq(body, k + 2, Len(body))))
  ELSE wholeLiteral(body, k)

\* a literal with a sign character before it
signedLiteral(sign, lit) ==
  IF lit.len = 0 THEN NoLiteral
  ELSE [len |-> lit.len + 1, value |-> IF sign = "-" THEN -lit.value ELSE lit.value]

\* The decimal literal at the start of a text: sign, digits, and with
\* fraction = TRUE a point and digits.
scanNumber(t, fraction) ==
  IF t # <<>> /\ Head(t) \in {"-", "+"}
  THEN signedLiteral(Head(t),
                     literalAfterDigits(Tail(t), leadingDigits(Tail(t)), fraction))
  ELSE literalAfterDigits(t, leadingDigits(t), fraction)

\* text of a non-negative whole number
RECURSIVE digitsOf(_)
digitsOf(n) ==
  IF n < 10 THEN <<Digits[n + 1]>> ELSE digitsOf(n \div 10) \o <<Digits[(n % 10) + 1]>>

\* String(number) of a number that is not negative
unsignedToString(a) ==
  digitsOf(a \div 10) \o (IF a % 10 = 0 THEN <<>> ELSE <<".", Digits[(a % 10) + 1]>>)

\* String(number)
numberToString(n) ==
  IF n < 0 THEN <<"-">> \o unsignedToString(-n) ELSE unsignedToString(n)

\* String(v)
StringOf(v) ==
  CASE v.t = "string" -> v.s
    [] v.t = "number" -> numberToString(v.n)
    [] v.t = "NaN" -> <<"N", "a", "N">>
    [] v.t = "undefined" -> <<"u", "n", "d", "e", "f", "i", "n", "e", "d">>
    [] v.t = "null" -> <<"n", "u", "l", "l">>
    [] v.t = "true" -> <<"t", "r", "u", "e">>
    [] OTHER -> <<"f", "a", "l", "s", "e">>

\* the number that a literal denotes, NaN if there is no literal
numberOf(lit) == IF lit.len = 0 THEN NaN ELSE Num(lit.value)

\* the number that a literal denotes if it is the whole of the text
numberOfAll(text, lit) == IF lit.len = Len(text) THEN numberOf(lit) ELSE NaN

\* Number(string) of a trimmed string
stringToNumber(text) ==
  IF text = <<>> THEN Num(0) ELSE numberOfAll(text, scanNumber(text, TRUE))

\* Number(v): a string converts when the whole of it, trimmed, is a literal
ToNumber(v) ==
  CASE v.t \in {"number", "NaN"} -> v
    [] v.t = "undefined" -> NaN
    [] v.t \in {"null", "false"} -> Num(0)
    [] v.t = "true" -> Num(10)
    [] OTHER -> stringToNumber(trim(v.s))

\* isNaN(v)
isNaN(v) == ToNumber(v).t = "NaN"

\* parseFloat(v): the literal at the start of String(v), if any
parseFloat(v) == numberOf(scanNumber(trimStart(StringOf(v)), TRUE))

\* parseInt(v): the whole-number literal at the start of String(v), if any
parseInt(v) == numberOf(scanNumber(trimStart(StringOf(v)), FALSE))

(* ------------------------------ outcomes ------------------------------- *)
\* new Error(message); cause is the message of the error it was made from
Error(message) == [message |-> message, cause |-> message]
\* new Error(`${prefix}${error.message}`)
Wrapped(prefix, error) == [message |-> prefix \o error.message, cause |-> error.message]
NoError == Error("")

\* a promise resolved with banks, a promise rejected with an error
Resolved(list) == [ok |-> TRUE, banks |-> list, error |-> NoError]
Rejected(error) == [ok |-> FALSE, banks |-> <<>>, error |-> error]

(* ----------------------------- JSON format ----------------------------- *)
\* JSON.stringify of a value: NaN is written as null
stringifyValue(v) == IF v.t = "NaN" THEN JSNull ELSE v

\* JSON.stringify(banks, null, 2): the document that the text denotes
JSONstringify(list) ==
  [kind |-> "array",
   elems |-> [i \in DOMAIN list |->
               [f \in DOMAIN list[i] |-> stringifyValue(list[i][f])]]]

\* the file that the browser hands back when the download is selected again
JSONFile(doc) == [type |-> "application/json", readable |-> TRUE, content |-> doc]

\* exportBanksToJSON(banks)
exportBanksToJSON(list) ==
  [ok |-> TRUE, error |-> NoError, file |-> JSONFile(JSONstringify(list))]

\* the first check of the validation callback that a bank fails, "" if none
invalidJSONField(bank) ==
  IF Falsy(bank.BankName) \/ typeof(bank.BankName) # "string" THEN "BankName"
  ELSE IF Falsy(bank.InterestRate) \/ isNaN(bank.InterestRate) THEN "InterestRate"
  ELSE IF Falsy(bank.MaximumLoan) \/ isNaN(bank.MaximumLoan) THEN "MaximumLoan"
  ELSE IF Falsy(bank.MinimumDownPayment) \/ isNaN(bank.MinimumDownPayment)
       THEN "MinimumDownPayment"
  ELSE IF Falsy(bank.LoanTerm) \/ isNaN(bank.LoanTerm) THEN "LoanTerm"
  ELSE ""

\* the record that the validation callback returns
validatedJSONBank(bank) ==
  [BankName |-> Str(trim(bank.BankName.s)),
   InterestRate |-> parseFloat(bank.InterestRate),
   MaximumLoan |-> parseFloat(bank.MaximumLoan),
   MinimumDownPayment |-> parseFloat(bank.MinimumDownPayment),
   LoanTerm |-> parseInt(bank.LoanTerm)]

JSONParseFailure == "Failed to parse JSON file: "

\* the error thrown for element i of the array
jsonBankError(i, field) ==
  Error("Bank " \o ToString(i) \o ": Invalid or missing " \o field)

\* banks.map(...), bad being the indexes of the elements that fail a check
validateJSONBanks(elems, bad) ==
  IF bad # {}
  THEN Rejected(Wrapped(JSONParseFailure,
         jsonBankError(CHOOSE j \in bad : \A k \in bad : j <= k,
                       invalidJSONField(elems[CHOOSE j \in bad : \A k \in bad : j <= k]))))
  ELSE Resolved([i \in DOMAIN elems |-> validatedJSONBank(elems[i])])

\* reader.onload, doc being what the text of the file denotes
jsonOnLoad(doc) ==
  IF doc.kind = "invalid"
  THEN Rejected(Wrapped(JSONParseFailure, Error("Unexpected token")))
  ELSE IF doc.kind # "array"
  THEN Rejected(Wrapped(JSONParseFailure,
                        Error("Invalid JSON format: expected array of banks")))
  ELSE validateJSONBanks(doc.elems,
         {i \in DOMAIN doc.elems : invalidJSONField(doc.elems[i]) # ""})

\* importBanksFromJSON(file): the outcome of the promise
importBanksFromJSON(file) ==
  IF file.type # "application/json"
  THEN Rejected(Error("Please select a valid JSON file"))
  ELSE IF ~file.readable THEN Rejected(Error("Failed to read file"))
  ELSE jsonOnLoad(file.content)

(* -------------------------- inputs of the calls ------------------------ *)
\* all sequences over S of length at most n
SeqsUpTo(S, n) == UNION {[1..k -> S] : k \in 0..n}

\* names the data model allows: plain, with a comma, with double quotes
ValidNames == {<<"A", "b">>, <<"A", ",", "b">>, <<"A", "\"", "b", "\"">>}

\* records the data model allows: rate 0 and 4.5, down payment 0 and 50,
\* maximum loan 200, term 1 and 30 years
ValidBanks ==
  {[BankName |-> Str(name), InterestRate |-> Num(rate), MaximumLoan |-> Num(2000),
    MinimumDownPayment |-> Num(down), LoanTerm |-> Num(term)] :
     name \in ValidNames, rate \in {0, 45}, down \in {0, 500}, term \in {10, 300}}

ValidCollections == SeqsUpTo(ValidBanks, MaxBanks)

\* values a field of a parsed JSON object can hold
JSONFieldValues ==
  {Undefined, JSNull, JSTrue, Num(0), Num(45), Num(-10),
   Str(<<>>), Str(<<" ">>), Str(<<"7">>), Str(<<"x">>)}

GoodJSONBank ==
  [BankName |-> Str(<<"A", "b">>), InterestRate |-> Num(45), MaximumLoan |-> Num(2000),
   MinimumDownPayment |-> Num(500), LoanTerm |-> Num(300)]

\* elements of a parsed JSON array: the good bank with one field replaced,
\* and the good bank with any of its fields missing
JSONElems ==
  {[GoodJSONBank EXCEPT ![f] = v] :
     f \in {"BankName", "InterestRate", "LoanTerm"}, v \in JSONFieldValues}
  \cup {[f \in DOMAIN GoodJSONBank |-> IF f \in missing THEN Undefined ELSE GoodJSONBank[f]] :
          missing \in SUBSET DOMAIN GoodJSONBank}

\* files handed to importBanksFromJSON
JSONFiles ==
  {JSONFile([kind |-> "array", elems |-> elems]) : elems \in SeqsUpTo(JSONElems, MaxElems)}
  \cup {JSONFile([kind |-> kind, elems |-> <<>>]) : kind \in {"object", "invalid"}}
  \cup {[type |-> "text/plain", readable |-> TRUE,
         content |-> [kind |-> "array", elems |-> <<GoodJSONBank>>]],
        [type |-> "application/json", readable |-> FALSE,
         content |-> [kind |-> "array", elems |-> <<GoodJSONBank>>]]}

(* ------------------------ JSON export and import ----------------------- *)
\* a call about to be made; origin holds the collection a file was exported from
NewCall(fn, arg, origin) ==
  [fn |-> fn, arg |-> arg, origin |-> origin, done |-> FALSE, result |-> Null]

JSONInit ==
  /\ StoreInit
  /\ FileManagerIdle
  /\ DataFetcherIdle
  /\ \/ \E list \in ValidCollections : call = NewCall("exportBanksToJSON", list, <<>>)
     \/ \E file \in JSONFiles : call = NewCall("importBanksFromJSON", file, <<>>)

\* exportBanksToJSON(banks) runs
ExportJSON ==
  /\ call.fn = "exportBanksToJSON" /\ ~call.done
  /\ call' = [call EXCEPT !.done = TRUE, !.result = exportBanksToJSON(call.arg)]
  /\ UNCHANGED <<storeVars, fmVars, dfVars>>

\* the downloaded file is handed to importBanksFromJSON
ReimportJSON ==
  /\ call.fn = "exportBanksToJSON" /\ call.done /\ call.result.ok
  /\ call' = NewCall("importBanksFromJSON", call.result.file, <<call.arg>>)
  /\ UNCHANGED <<storeVars, fmVars, dfVars>>

\* importBanksFromJSON(file) settles
ImportJSON ==
  /\ call.fn = "importBanksFromJSON" /\ ~call.done
  /\ call' = [call EXCEPT !.done = TRUE, !.result = importBanksFromJSON(call.arg)]
  /\ UNCHANGED <<storeVars, fmVars, dfVars>>

JSONNext == ExportJSON \/ ReimportJSON \/ ImportJSON

JSONSpec == JSONInit /\ [][JSONNext]_vars

\* the JSON import of an exported collection has settled
JSONRoundTripDone ==
  call.fn = "importBanksFromJSON" /\ call.done /\ call.origin # <<>>

\* claim C11: exporting a collection of valid records to JSON and importing
\* the file succeeds and returns a collection equal to the original, records
\* with interest rate 0 or minimum down payment 0 included.
C11_JSONRoundTrip ==
  JSONRoundTripDone =>
    /\ call.result.ok
    /\ call.result.banks = call.origin[1]


\* a field value that is a number, or a string that reads as a number
IsNumeric(v) ==
  \/ v.t = "number"
  \/ /\ v.t = "string"
     /\ trim(v.s) # <<>>
     /\ scanNumber(trim(v.s), TRUE).len = Len(trim(v.s))

\* the first field of an element that is missing or of the wrong kind, in
\* the order in which the importer looks at the fields; "" if there is none
OffendingJSONField(bank) ==
  IF bank.BankName.t # "string" \/ bank.BankName.s = <<>> THEN "BankName"
  ELSE IF ~IsNumeric(bank.InterestRate) THEN "InterestRate"
  ELSE IF ~IsNumeric(bank.MaximumLoan) THEN "MaximumLoan"
  ELSE IF ~IsNumeric(bank.MinimumDownPayment) THEN "MinimumDownPayment"
  ELSE IF ~IsNumeric(bank.LoanTerm) THEN "LoanTerm"
  ELSE ""

\* importBanksFromJSON has settled on a file that was read and parsed
JSONImportDone ==
  /\ call.fn = "importBanksFromJSON" /\ call.done
  /\ call.arg.type = "application/json" /\ call.arg.readable
  /\ call.arg.content.kind # "invalid"

\* claim C13: importBanksFromJSON is all-or-nothing. A parsed value that is
\* not an array is rejected with the format error; an array with an element
\* whose BankName is missing or not a string, or whose InterestRate,
\* MaximumLoan, MinimumDownPayment or LoanTerm is missing or non-numeric, is
\* rejected with an error naming the 1-based index of the first such element
\* and its first offending field, and no record is returned; the import
\* resolves, with one record per element in input order, only when every
\* element passes.
C13_JSONImportAllOrNothing ==
  JSONImportDone =>
    LET doc == call.arg.content
        r == call.result
        bad == {i \in DOMAIN doc.elems : OffendingJSONField(doc.elems[i]) # ""}
        first == CHOOSE i \in bad : \A k \in bad : i <= k
    IN IF doc.kind # "array"
       THEN ~r.ok /\ r.banks = <<>>
            /\ r.error.cause = "Invalid JSON format: expected array of banks"
       ELSE IF bad # {}
       THEN ~r.ok /\ r.banks = <<>>
            /\ r.error.cause = "Bank " \o ToString(first) \o ": Invalid or missing "
                                \o OffendingJSONField(doc.elems[first])
       ELSE r.ok =>
              /\ Len(r.banks) = Len(doc.elems)
              /\ \A i \in DOMAIN doc.elems :
                   r.banks[i].BankName.s = trim(doc.elems[i].BankName.s)


(* ------------------------------ CSV format ----------------------------- *)
\* The header cells are written as one piece of text each: they hold no
\* comma, quote or line break, which is all that the importer looks for.
csvHeaders ==
  << <<"Bank Name">>, <<"Interest Rate (%)">>, <<"Maximum Loan ($)">>,
     <<"Minimum Down Payment ($)">>, <<"Loan Term (years)">> >>

\* expectedHeaders.length
ExpectedColumns == Len(csvHeaders)

NoFile == [type |-> "", readable |-> FALSE, content |-> <<>>]

\* the file that the browser hands back when the download is selected again
CSVFile(text) == [type |-> "text/csv", readable |-> TRUE, content |-> text]

\* one row of the export: the name between quotes, the numbers as String()
csvRow(bank) ==
  join(<< <<"\"">> \o StringOf(bank.BankName) \o <<"\"">>,
          StringOf(bank.InterestRate), StringOf(bank.MaximumLoan),
          StringOf(bank.MinimumDownPayment), StringOf(bank.LoanTerm) >>, ",")

\* the body of the try block of exportBanksToCSV
tryExportBanksToCSV(list) ==
  IF Len(list) = 0
  THEN [ok |-> FALSE, error |-> Error("No banks data to export"), file |-> NoFile]
  ELSE [ok |-> TRUE, error |-> NoError,
        file |-> CSVFile(join(<<join(csvHeaders, ",")>>
                              \o [i \in DOMAIN list |-> csvRow(list[i])], "\n"))]

\* the catch block of exportBanksToCSV: whatever the try block throws is
\* caught and a new error is thrown in its place
catchExportError(attempt) ==
  IF attempt.ok THEN attempt
  ELSE [ok |-> FALSE, error |-> Error("Failed to export banks data"), file |-> NoFile]

\* exportBanksToCSV(banks)
exportBanksToCSV(list) == catchExportError(tryExportBanksToCSV(list))

\* replace(/"$/, '')
stripEndQuote(t) ==
  IF t # <<>> /\ t[Len(t)] = "\"" THEN SubSeq(t, 1, Len(t) - 1) ELSE t

\* v.trim().replace(/^"|"$/g, '') of a trimmed text
stripQuotes(t) == stripEndQuote(IF t # <<>> /\ Head(t) = "\"" THEN Tail(t) ELSE t)

\* v.trim().replace(/^"|"$/g, '') over the cells
cleanCells(cells) == [i \in DOMAIN cells |-> stripQuotes(trim(cells[i]))]

\* the cells of a data row
csvValues(line) == cleanCells(split(line, ","))

\* the record built from a data row of five cells
csvBank(values) ==
  [BankName |-> Str(values[1]),
   InterestRate |-> parseFloat(Str(values[2])),
   MaximumLoan |-> parseFloat(Str(values[3])),
   MinimumDownPayment |-> parseFloat(Str(values[4])),
   LoanTerm |-> parseInt(Str(values[5]))]

\* isNaN(v) || v < least, v a number or NaN and least a whole number
invalidNumber(v, least) == isNaN(v) \/ v.n < 10 * least

\* the error that the checks of a bank throw, "" if it is pushed
csvBankError(bank) ==
  IF Falsy(bank.BankName) \/ bank.BankName.s = <<>> THEN "Invalid or missing Bank Name"
  ELSE IF invalidNumber(bank.InterestRate, 0) THEN "Invalid Interest Rate"
  ELSE IF invalidNumber(bank.MaximumLoan, 0) THEN "Invalid Maximum Loan"
  ELSE IF invalidNumber(bank.MinimumDownPayment, 0) THEN "Invalid Minimum Down Payment"
  ELSE IF invalidNumber(bank.LoanTerm, 1) THEN "Invalid Loan Term"
  ELSE ""

\* the error that the cells of a data row throw, "" if the row is pushed
csvValuesError(values) ==
  IF Len(values) # ExpectedColumns THEN "Invalid number of columns"
  ELSE csvBankError(csvBank(values))

\* the error that a data row throws, "" if it is pushed
csvRowError(line) == csvValuesError(csvValues(line))

IsNotBlank(line) == trim(line) # <<>>

CSVParseFailure == "Failed to parse CSV file: "

\* the for loop over the data rows, bad being the rows that throw
parseCSVRows(lines, bad) ==
  IF bad # {}
  THEN Rejected(Wrapped(CSVParseFailure,
         Error("Row " \o ToString(CHOOSE j \in bad : \A k \in bad : j <= k) \o ": "
               \o csvRowError(lines[CHOOSE j \in bad : \A k \in bad : j <= k]))))
  ELSE Resolved([i \in 1..(Len(lines) - 1) |-> csvBank(csvValues(lines[i + 1]))])

\* reader.onload, lines being the lines of the file that are not blank
csvOnLoad(lines) ==
  IF Len(lines) < 2
  THEN Rejected(Wrapped(CSVParseFailure,
         Error("CSV file must contain at least header and one data row")))
  ELSE IF Len(split(lines[1], ",")) # ExpectedColumns
  THEN Rejected(Wrapped(CSVParseFailure,
         Error("Invalid CSV format: incorrect number of columns")))
  ELSE parseCSVRows(lines, {i \in 2..Len(lines) : csvRowError(lines[i]) # ""})

\* importBanksFromCSV(file): the outcome of the promise
importBanksFromCSV(file) ==
  IF file.type # "text/csv" THEN Rejected(Error("Please select a valid CSV file"))
  ELSE IF ~file.readable THEN Rejected(Error("Failed to read file"))
  ELSE csvOnLoad(SelectSeq(split(file.content, "\n"), IsNotBlank))

(* ------------------------- CSV export and import ----------------------- *)
\* the cells of a data row that the importer accepts
GoodCells == << <<"\"", "A", "b", "\"">>, <<"4", ".", "5">>, <<"2", "0", "0">>,
                <<"5", "0">>, <<"3", "0">> >>

\* other texts for the cells: column, text
CellVariations ==
  {<<1, <<"A", "b">> >>, <<1, <<"\"", "\"">> >>,
   <<2, <<"0">> >>, <<2, <<"-", "1">> >>, <<2, <<"x">> >>, <<2, <<"5", "x">> >>,
   <<2, <<>> >>, <<2, <<" ", "7", " ">> >>,
   <<2, <<"1", "5", "0">> >>,
   <<3, <<"-", "5">> >>, <<4, <<"x">> >>, <<4, <<"5", "0", "0">> >>,
   <<5, <<"0">> >>, <<5, <<"2", ".", "7">> >>, <<5, <<"x">> >>, <<5, <<"-", "2">> >>}

\* lines that follow the header: rows of five cells, a row of four cells,
\* a row of six cells, and a blank line
CSVLines ==
  {join(GoodCells, ",")}
  \cup {join([GoodCells EXCEPT ![v[1]] = v[2]], ",") : v \in CellVariations}
  \cup {join(SubSeq(GoodCells, 1, 4), ","), join(GoodCells \o <<<<"1">>>>, ","), <<" ">>}

CSVHeaderLines ==
  {join(csvHeaders, ","), <<"Invalid", ",", "CSV", ",", "Format">>,
   join(csvHeaders \o <<<<"Notes">>>>, ",")}

\* files handed to importBanksFromCSV
CSVFiles ==
  {CSVFile(join(<<header>> \o rows, "\n")) :
     header \in CSVHeaderLines, rows \in SeqsUpTo(CSVLines, MaxRows)}
  \cup {CSVFile(<<>>),
        [type |-> "text/plain", readable |-> TRUE, content |-> join(csvHeaders, ",")],
        [type |-> "text/csv", readable |-> FALSE, content |-> join(csvHeaders, ",")]}

CSVInit ==
  /\ StoreInit
  /\ FileManagerIdle
  /\ DataFetcherIdle
  /\ \/ \E list \in ValidCollections : call = NewCall("exportBanksToCSV", list, <<>>)
     \/ \E file \in CSVFiles : call = NewCall("importBanksFromCSV", file, <<>>)

\* exportBanksToCSV(banks) runs
ExportCSV ==
  /\ call.fn = "exportBanksToCSV" /\ ~call.done
  /\ call' = [call EXCEPT !.done = TRUE, !.result = exportBanksToCSV(call.arg)]
  /\ UNCHANGED <<storeVars, fmVars, dfVars>>

\* the downloaded file is handed to importBanksFromCSV
ReimportCSV ==
  /\ call.fn = "exportBanksToCSV" /\ call.done /\ call.result.ok
  /\ call' = NewCall("importBanksFromCSV", call.result.file, <<call.arg>>)
  /\ UNCHANGED <<storeVars, fmVars, dfVars>>

\* importBanksFromCSV(file) settles
ImportCSV ==
  /\ call.fn = "importBanksFromCSV" /\ ~call.done
  /\ call' = [call EXCEPT !.done = TRUE, !.result = importBanksFromCSV(call.arg)]
  /\ UNCHANGED <<storeVars, fmVars, dfVars>>

CSVNext == ExportCSV \/ ReimportCSV \/ ImportCSV

CSVSpec == CSVInit /\ [][CSVNext]_vars

\* the CSV import of an exported collection has settled
CSVRoundTripDone ==
  call.fn = "importBanksFromCSV" /\ call.done /\ call.origin # <<>>

\* claim C12: exporting a non-empty collection of valid records to CSV and
\* importing the file succeeds with the same number of records in the same
\* order, each with an equal name and numerically equal fields, whatever the
\* valid names are (names with a comma or a double quote included).
C12_CSVRoundTrip ==
  CSVRoundTripDone =>
    LET original == call.origin[1]
        r == call.result
    IN /\ r.ok
       /\ Len(r.banks) = Len(original)
       /\ \A i \in DOMAIN original :
            /\ r.banks[i].BankName.s = original[i].BankName.s
            /\ \A f \in {"InterestRate", "MaximumLoan", "MinimumDownPayment", "LoanTerm"} :
                 r.banks[i][f].t = "number" /\ r.banks[i][f].n = original[i][f].n


\* importBanksFromCSV has settled on a file that was read
CSVImportDone ==
  /\ call.fn = "importBanksFromCSV" /\ call.done
  /\ call.arg.type = "text/csv" /\ call.arg.readable

\* the lines of the file that are not blank: row 1 is the header
CSVInputRows == SelectSeq(split(call.arg.content, "\n"), IsNotBlank)

\* a cell whose text is a number from start to end
IsNumericCell(cell) == cell # <<>> /\ scanNumber(cell, TRUE).len = Len(cell)

\* a data row that must fail: not five cells, no name, a cell that is not
\* a number, a negative rate or amount, a term below 1
OffendingCSVRow(line) ==
  LET values == csvValues(line)
  IN \/ Len(values) # 5
     \/ values[1] = <<>>
     \/ \E k \in 2..5 : ~IsNumericCell(values[k])
     \/ \E k \in 2..4 : scanNumber(values[k], TRUE).value < 0
     \/ scanNumber(values[5], TRUE).value < 10

RowMessages ==
  {"Invalid number of columns", "Invalid or missing Bank Name", "Invalid Interest Rate",
   "Invalid Maximum Loan", "Invalid Minimum Down Payment", "Invalid Loan Term"}

\* claim C14: importBanksFromCSV is all-or-nothing and names the failing
\* row. If row k (1-based, the header being row 1) is the first data row
\* whose column count is not 5 or that has a numeric field that is not a
\* number or is out of range (rate or amount below 0, term below 1), the
\* import is rejected with an error naming row k and delivers no record.
C14_CSVImportNamesFailingRow ==
  (CSVImportDone /\ Len(CSVInputRows) >= 2
     /\ Len(split(CSVInputRows[1], ",")) = ExpectedColumns) =>
    LET rows == CSVInputRows
        r == call.result
        bad == {i \in 2..Len(rows) : OffendingCSVRow(rows[i])}
        k == CHOOSE i \in bad : \A j \in bad : i <= j
    IN bad # {} =>
         /\ ~r.ok
         /\ r.banks = <<>>
         /\ r.error.cause \in {"Row " \o ToString(k) \o ": " \o m : m \in RowMessages}

\* claim C15: importBanksFromCSV rejects with an 'Invalid CSV format' error
\* every input whose header row does not have exactly 5 columns, an input
\* that is a single header line with no data rows included.
C15_BadHeaderIsFormatError ==
  (CSVImportDone /\ Len(CSVInputRows) >= 1
     /\ Len(split(CSVInputRows[1], ",")) # 5) =>
    /\ ~call.result.ok
    /\ call.result.error.cause = "Invalid CSV format: incorrect number of columns"

\* claim C16: exportBanksToCSV called with an empty collection throws an
\* error whose message is 'No banks data to export', and produces no
\* download.
C16_EmptyExportMessage ==
  (call.fn = "exportBanksToCSV" /\ call.done /\ call.arg = <<>>) =>
    /\ ~call.result.ok
    /\ call.result.error.message = "No banks data to export"
    /\ call.result.file = NoFile


(* ====================================================================== *)
(* FileManager (src/components/FileManager/index.jsx)                      *)
(* ====================================================================== *)

\* validateFileSize(file, maxSizeMB), with '<' for '<='
validateFileSize_strict(file, maxSizeMB) == file.size < maxSizeMB * 1024 * 1024

\* validateFileSize(file, maxSizeMB)
validateFileSize(file, maxSizeMB) == file.size <= maxSizeMB * 1024 * 1024

\* the size limit and the preview length that handleFileSelect passes
MaxFileSizeMB == 10
PreviewLength == 200

\* toLowerCase on the file extensions of the model
extensionToLowerCase(ext) ==
  IF ext = <<"JSON">> THEN <<"json">> ELSE IF ext = <<"CSV">> THEN <<"csv">> ELSE ext

\* selectedFile.name.split('.').pop().toLowerCase()
getFileExtension(name) ==
  LET parts == split(name, ".") IN extensionToLowerCase(parts[Len(parts)])

\* file.type.startsWith('text/') on the types of the model
IsTextType(type) == type \in {"text/csv", "text/plain"}

PreviewNotAvailable == <<"Preview not available for this file type">>

\* what handleFileSelect puts in filePreview when createFilePreview(file,
\* maxLength) settles: the start of the text, or the notice when it rejects
createFilePreview(file, maxLength) ==
  IF ~IsTextType(file.type) \/ ~file.readable THEN PreviewNotAvailable
  ELSE IF Len(file.content) > maxLength
  THEN SubSeq(file.content, 1, maxLength) \o <<"...">>
  ELSE file.content

\* a file of the user: what importers and preview read, plus name and size
UserFile(name, size, file) ==
  [name |-> name, size |-> size, type |-> file.type, readable |-> file.readable,
   content |-> file.content]

TenMB == 10 * 1024 * 1024

\* a JSON export of one bank, small, of exactly 10 MB and of one byte more;
\* a JSON file with a bad record; a CSV export, small and of 15 MB; notes
FMFiles ==
  {UserFile(<<"banks", ".", "json">>, size, JSONFile(JSONstringify(<<GoodJSONBank>>))) :
     size \in {2048, TenMB, TenMB + 1}}
  \cup {UserFile(<<"broken", ".", "JSON">>, 2048,
                 JSONFile([kind |-> "array", elems |-> <<[GoodJSONBank EXCEPT !.LoanTerm = Undefined]>>])),
        UserFile(<<"notes", ".", "txt">>, 2048,
                 [type |-> "text/plain", readable |-> TRUE, content |-> <<"h", "i">>])}
  \cup {UserFile(<<"banks", ".", "csv">>, size,
                 CSVFile(join(<<join(csvHeaders, ","), join(GoodCells, ",")>>, "\n"))) :
          size \in {2048, 15 * 1024 * 1024}}

FMInit ==
  /\ StoreInit
  /\ call = IdleCall
  /\ DataFetcherIdle
  /\ \E list \in {<<>>, <<GoodJSONBank>>} :
       fm = [isOpen |-> TRUE, banks |-> list, isExporting |-> FALSE,
             isImporting |-> FALSE, importedBanks |-> <<>>, selectedFile |-> <<>>,
             filePreview |-> <<>>, error |-> <<>>, success |-> <<>>]
  /\ tasks = {}
  /\ log = [events |-> 0, last |-> "(none)", file |-> <<>>, invoked |-> {},
            resolved |-> <<>>, applied |-> <<>>]

\* the user does something in the dialog
UserEvent(name, file) ==
  /\ log.events < MaxEvents
  /\ log' = [log EXCEPT !.events = @ + 1, !.last = name, !.file = file]

\* the user picks a file in the selector: handleFileSelect(file)
SelectFile ==
  \E file \in FMFiles :
    /\ fm.isOpen /\ ~fm.isImporting
    /\ UserEvent("select", <<file>>)
    /\ IF ~validateFileSize(file, MaxFileSizeMB)
       THEN /\ fm' = [fm EXCEPT !.error = <<"File size exceeds 10MB limit">>,
                                !.success = <<>>, !.selectedFile = <<>>,
                                !.importedBanks = <<>>]
            /\ UNCHANGED tasks
       ELSE IF ~IsTextType(file.type)
       THEN /\ fm' = [fm EXCEPT !.error = <<>>, !.success = <<>>,
                                !.selectedFile = <<file>>, !.importedBanks = <<>>,
                                !.filePreview = createFilePreview(file, PreviewLength)]
            /\ UNCHANGED tasks
       ELSE /\ fm' = [fm EXCEPT !.error = <<>>, !.success = <<>>,
                                !.selectedFile = <<file>>, !.importedBanks = <<>>]
            /\ tasks' = tasks \cup {[kind |-> "preview", file |-> file,
                                      outcome |-> createFilePreview(file, PreviewLength)]}
    /\ UNCHANGED <<storeVars, call, dfVars>>

\* the read started by createFilePreview ends; the task holds what the
\* promise of createFilePreview settles with
PreviewCompletes ==
  \E task \in tasks :
    /\ task.kind = "preview"
    /\ fm' = [fm EXCEPT !.filePreview = task.outcome]
    /\ tasks' = tasks \ {task}
    /\ log' = [log EXCEPT !.last = "preview done", !.file = <<task.file>>]
    /\ UNCHANGED <<storeVars, call, dfVars>>


\* the importer that handleImport picks for an extension, "" if none
importerOf(ext) ==
  IF ext = <<"json">> THEN "importBanksFromJSON"
  ELSE IF ext = <<"csv">> THEN "importBanksFromCSV"
  ELSE ""

\* the outcome of the importer fn on a file
importOutcome(fn, file) ==
  IF fn = "importBanksFromJSON" THEN importBanksFromJSON(file) ELSE importBanksFromCSV(file)

\* the type that an importer reads; any other type is rejected at once
typeReadBy(fn) == IF fn = "importBanksFromJSON" THEN "application/json" ELSE "text/csv"

\* the end of handleImport, with the records read before the failure kept
importSettled_keepPartial(state, file, outcome) ==
  IF outcome.ok
  THEN [state EXCEPT !.importedBanks = outcome.banks,
                     !.success = <<"Successfully imported ", ToString(Len(outcome.banks)),
                                   " banks from ">> \o file.name,
                     !.isImporting = FALSE]
  ELSE [state EXCEPT !.importedBanks = <<[BankName |-> Str(file.name)]>>,
                     !.error = <<outcome.error.message>>, !.isImporting = FALSE]

\* the end of handleImport, without the finally block
importSettled_noFinally(state, file, outcome) ==
  IF outcome.ok
  THEN [state EXCEPT !.importedBanks = outcome.banks,
                     !.success = <<"Successfully imported ", ToString(Len(outcome.banks)),
                                   " banks from ">> \o file.name,
                     !.isImporting = FALSE]
  ELSE [state EXCEPT !.error = <<outcome.error.message>>]

\* what the end of handleImport sets, given the outcome of the importer
importSettled(state, file, outcome) ==
  IF outcome.ok
  THEN [state EXCEPT !.importedBanks = outcome.banks,
                     !.success = <<"Successfully imported ", ToString(Len(outcome.banks)),
                                   " banks from ">> \o file.name,
                     !.isImporting = FALSE]
  ELSE [state EXCEPT !.error = <<outcome.error.message>>, !.isImporting = FALSE]

\* the sequences that imports have resolved with, after one more outcome
resolvedWith(resolved, outcome) ==
  IF outcome.ok THEN Append(resolved, outcome.banks) ELSE resolved

\* the user clicks 'Import Data', shown while a file is selected and enabled
\* while no import runs: handleImport()
ClickImport ==
  /\ fm.isOpen /\ fm.selectedFile # <<>> /\ ~fm.isImporting
  /\ LET file == fm.selectedFile[1]
         fn == importerOf(getFileExtension(file.name))
         started == [fm EXCEPT !.isImporting = TRUE, !.error = <<>>, !.success = <<>>]
     IN /\ log.events < MaxEvents
        /\ IF fn = ""
           THEN /\ fm' = [started EXCEPT
                            !.error = <<"Unsupported file format. Please use JSON or CSV files.">>,
                            !.isImporting = FALSE]
                /\ log' = [log EXCEPT !.events = @ + 1, !.last = "import", !.file = <<file>>]
                /\ UNCHANGED tasks
           ELSE /\ log' = [log EXCEPT !.events = @ + 1, !.last = "import", !.file = <<file>>,
                                      !.invoked = @ \cup {[fn |-> fn, file |-> file]},
                                      !.resolved = IF file.type # typeReadBy(fn)
                                                   THEN resolvedWith(@, importOutcome(fn, file))
                                                   ELSE @]
                /\ IF file.type # typeReadBy(fn)
                   THEN /\ fm' = importSettled(started, file, importOutcome(fn, file))
                        /\ UNCHANGED tasks
                   ELSE /\ fm' = started
                        /\ tasks' = tasks \cup {[kind |-> fn, file |-> file,
                                                  outcome |-> importOutcome(fn, file)]}
  /\ UNCHANGED <<storeVars, call, dfVars>>

\* the read started by an importer ends and handleImport resumes; the task
\* holds what the promise of the importer settles with
ImportCompletes ==
  \E task \in tasks :
    /\ task.kind # "preview"
    /\ fm' = importSettled(fm, task.file, task.outcome)
    /\ tasks' = tasks \ {task}
    /\ log' = [log EXCEPT !.last = "import done", !.file = <<task.file>>,
                          !.resolved = resolvedWith(@, task.outcome)]
    /\ UNCHANGED <<storeVars, call, dfVars>>

\* the user clicks 'Apply Imported Data', shown while importedBanks is not
\* empty: handleApplyImport()
ApplyImport ==
  /\ fm.isOpen /\ Len(fm.importedBanks) > 0
  /\ log.events < MaxEvents
  /\ log' = [log EXCEPT !.events = @ + 1, !.last = "apply", !.file = <<>>,
                        !.applied = Append(@, fm.importedBanks)]
  /\ fm' = [fm EXCEPT !.success = <<"Banks data applied successfully!">>,
                      !.importedBanks = <<>>, !.selectedFile = <<>>,
                      !.filePreview = <<>>]
  /\ UNCHANGED <<tasks, storeVars, call, dfVars>>

\* the user clicks an export button, enabled while banks is not empty and no
\* export runs: handleExport(format)
ClickExport ==
  \E format \in {"json", "csv"} :
    /\ fm.isOpen /\ ~fm.isExporting /\ Len(fm.banks) > 0
    /\ UserEvent("export", <<>>)
    /\ LET outcome == IF format = "json" THEN exportBanksToJSON(fm.banks)
                      ELSE exportBanksToCSV(fm.banks)
       IN fm' = IF outcome.ok
                THEN [fm EXCEPT !.error = <<>>,
                                !.success = <<"Successfully exported ", ToString(Len(fm.banks)),
                                              " banks to ", IF format = "json" THEN "JSON" ELSE "CSV",
                                              " file">>]
                ELSE [fm EXCEPT !.error = <<outcome.error.message>>, !.success = <<>>]
    /\ UNCHANGED <<tasks, storeVars, call, dfVars>>

\* the user closes the dialog: handleClose(), and the parent hides it
Close ==
  /\ fm.isOpen
  /\ UserEvent("close", <<>>)
  /\ fm' = [fm EXCEPT !.error = <<>>, !.success = <<>>, !.selectedFile = <<>>,
                      !.importedBanks = <<>>, !.filePreview = <<>>, !.isOpen = FALSE]
  /\ UNCHANGED <<tasks, storeVars, call, dfVars>>

\* the parent shows the dialog again
Open ==
  /\ ~fm.isOpen
  /\ UserEvent("open", <<>>)
  /\ fm' = [fm EXCEPT !.isOpen = TRUE]
  /\ UNCHANGED <<tasks, storeVars, call, dfVars>>

FMNext ==
  \/ SelectFile
  \/ PreviewCompletes
  \/ ClickImport
  \/ ImportCompletes
  \/ ApplyImport
  \/ ClickExport
  \/ Close
  \/ Open

FMSpec == FMInit /\ [][FMNext]_vars


\* the user has just picked a file and nothing has happened since
JustSelected(file) == log.last = "select" /\ log.file = <<file>>

\* claim C17: a file of more than 10 MB (size > 10 * 1024 * 1024) selected
\* in FileManager is rejected before any parsing: right after the selection
\* selectedFile is null and error is set, and no importer is ever invoked on
\* such a file; a file of exactly 10 MB is accepted.
C17_OversizeFileRejected ==
  /\ \A file \in FMFiles :
       JustSelected(file) =>
         IF file.size > 10 * 1024 * 1024
         THEN fm.selectedFile = <<>> /\ fm.error # <<>>
         ELSE fm.selectedFile = <<file>> /\ fm.error = <<>>
  /\ \A invocation \in log.invoked : invocation.file.size <= 10 * 1024 * 1024

\* a file of more than 10 MB has just been selected
C17_Witness ==
  \E file \in FMFiles : JustSelected(file) /\ file.size > 10 * 1024 * 1024

\* a file of exactly 10 MB has been selected and handed to an importer
C17_WitnessExactLimit ==
  \E invocation \in log.invoked : invocation.file.size = 10 * 1024 * 1024



\* an importer was invoked on a file and rejects it
FailedInvocation(invocation) == ~importOutcome(invocation.fn, invocation.file).ok

\* every sequence handed to onImportBanks is the whole sequence some import
\* resolved with, and there are no more of them than imports that resolved
AppliedAreResolved ==
  /\ \A k \in DOMAIN log.applied :
       \E j \in DOMAIN log.resolved : log.applied[k] = log.resolved[j]
  /\ Len(log.applied) <= Len(log.resolved)

\* onImportBanks is called by 'Apply Imported Data' alone, with importedBanks;
\* an import that starts, or that ends without resolving, leaves
\* importedBanks as it was and calls nothing
AppliedByApplyAlone ==
  /\ log'.applied # log.applied =>
       /\ log'.last = "apply"
       /\ fm.importedBanks # <<>>
       /\ log'.applied = Append(log.applied, fm.importedBanks)
       /\ fm'.importedBanks = <<>>
  /\ (log'.last \in {"import", "import done"} /\ log'.resolved = log.resolved) =>
       /\ fm'.importedBanks = fm.importedBanks
       /\ log'.applied = log.applied

\* claim C21: in FileManager onImportBanks is invoked only by the Apply
\* action, only with the complete sequence returned by an import that
\* resolved, and at most once per import that resolved; an import that fails
\* never causes onImportBanks to be called with a record of the failing file.
C21_OnlyResolvedImportsApplied == []AppliedAreResolved /\ [][AppliedByApplyAlone]_vars

\* an import has failed, another has resolved and was applied, and nothing
\* is left to apply
C21_Witness ==
  /\ \E invocation \in log.invoked : FailedInvocation(invocation)
  /\ Len(log.applied) = 1
  /\ log.last = "apply"
  /\ fm.importedBanks = <<>>


\* the dialog was closed by handleClose and the user has done nothing since
\* (the dialog starts open, and a closed dialog offers the user nothing)
ClosedSinceHandleClose == ~fm.isOpen

\* claim C27: after FileManager.handleClose, error, success, selectedFile,
\* importedBanks and filePreview are all empty and stay empty until the next
\* user action, even when an import or a file preview that was started
\* before the close completes after it.
C27_ClosedStaysEmpty ==
  ClosedSinceHandleClose =>
    /\ fm.error = <<>>
    /\ fm.success = <<>>
    /\ fm.selectedFile = <<>>
    /\ fm.importedBanks = <<>>
    /\ fm.filePreview = <<>>


\* claim C28: in FileManager, whenever selectedFile is not null and
\* filePreview is not empty, filePreview is the preview (or the 'not
\* available' notice) produced for that selectedFile, under every order in
\* which the previews of successively selected files complete.
C28_PreviewOfSelectedFile ==
  (fm.selectedFile # <<>> /\ fm.filePreview # <<>>) =>
    fm.filePreview = createFilePreview(fm.selectedFile[1], PreviewLength)


\* claim C29: in every reachable state of FileManager, after any sequence of
\* file selections, imports, applies, exports and closes, at most one of the
\* error message and the success message is not empty.
C29_ErrorOrSuccessNotBoth == fm.error = <<>> \/ fm.success = <<>>


\* FileManager with the reads of the importers ending: a FileReader that was
\* started fires onload or onerror
FMLiveSpec == FMSpec /\ WF_vars(ImportCompletes)

\* the imports whose read has not ended
ImportsInFlight == {task \in tasks : task.kind # "preview"}

\* one import at most is in flight, and isImporting is true while it is
OneImportInFlight ==
  /\ Cardinality(ImportsInFlight) <= 1
  /\ ImportsInFlight # {} => fm.isImporting

\* while isImporting is true the user starts no import and selects no file
NoStartWhileImporting ==
  (fm.isImporting /\ log'.events # log.events) => log'.last \notin {"import", "select"}

\* claim C30: in FileManager at most one import is in flight at a time:
\* while isImporting is true neither a second import nor a new file
\* selection can start; and every started import eventually ends with
\* isImporting = false, whether the importer resolves or rejects.
C30_OneImportThatEnds ==
  /\ []OneImportInFlight
  /\ [][NoStartWhileImporting]_vars
  /\ (ImportsInFlight # {}) ~> (ImportsInFlight = {} /\ ~fm.isImporting)
  /\ fm.isImporting ~> ~fm.isImporting

\* an import is in flight, isImporting is true, and the dialog was closed
\* and shown again in the meantime
C30_Witness ==
  /\ ImportsInFlight # {}
  /\ fm.isImporting
  /\ fm.isOpen
  /\ log.last = "open"

\* an import that was rejected has ended with isImporting false
C30_WitnessRejected ==
  /\ log.last = "import done"
  /\ fm.error # <<>>
  /\ ~fm.isImporting


(* ------------------- records that the importers return ----------------- *)
\* an import that resolved: the call settled with a sequence of records
ImportResolved ==
  /\ call.fn \in {"importBanksFromJSON", "importBanksFromCSV"}
  /\ call.done /\ call.result.ok

\* claim C25: every record in a sequence that importBanksFromJSON or
\* importBanksFromCSV returns satisfies the field constraints of a bank
\* offer: a name that is not empty, an interest rate between 0 and 100, a
\* maximum loan of at least 0, a minimum down payment between 0 and the
\* maximum loan, and a loan term that is a whole number of at least 1
\* (numbers are held in tenths).
C25_ImportedRecordsAreBankOffers ==
  ImportResolved =>
    \A i \in DOMAIN call.result.banks :
      LET bank == call.result.banks[i]
      IN /\ bank.BankName.t = "string" /\ bank.BankName.s # <<>>
         /\ bank.InterestRate.t = "number"
         /\ bank.InterestRate.n >= 0 /\ bank.InterestRate.n <= 1000
         /\ bank.MaximumLoan.t = "number" /\ bank.MaximumLoan.n >= 0
         /\ bank.MinimumDownPayment.t = "number"
         /\ bank.MinimumDownPayment.n >= 0
         /\ bank.MinimumDownPayment.n <= bank.MaximumLoan.n
         /\ bank.LoanTerm.t = "number"
         /\ bank.LoanTerm.n >= 10 /\ bank.LoanTerm.n % 10 = 0

(* ====================================================================== *)
(* Mortgage calculation (src/components/MemoizedBankCard/index.jsx)       *)
(* ====================================================================== *)

(* ------------------------ whole numbers of any size -------------------- *)
\* A whole number that is not negative: its digits in base 1000, the lowest
\* first, the highest not 0; zero is <<>>.
Base == 1000

limb0(a) == IF a = <<>> THEN 0 ELSE Head(a)
rest(a) == IF a = <<>> THEN <<>> ELSE Tail(a)
front(a) == SubSeq(a, 1, Len(a) - 1)

RECURSIVE bigOf(_)
bigOf(n) == IF n = 0 THEN <<>> ELSE <<n % Base>> \o bigOf(n \div Base)

RECURSIVE bigTrim(_)
bigTrim(a) == IF a # <<>> /\ a[Len(a)] = 0 THEN bigTrim(front(a)) ELSE a

RECURSIVE addCarry(_, _, _)
addDigit(sum, ta, tb) == <<sum % Base>> \o addCarry(ta, tb, sum \div Base)
addCarry(a, b, c) ==
  IF a = <<>> /\ b = <<>> THEN bigOf(c)
  ELSE addDigit(limb0(a) + limb0(b) + c, rest(a), rest(b))

bigAdd(a, b) == addCarry(a, b, 0)

RECURSIVE subBorrow(_, _, _)
subDigit(diff, ta, tb) ==
  <<(diff + Base) % Base>> \o subBorrow(ta, tb, IF diff < 0 THEN 1 ELSE 0)
subBorrow(a, b, c) ==
  IF a = <<>> THEN <<>> ELSE subDigit(Head(a) - limb0(b) - c, Tail(a), rest(b))

\* a - b, for a >= b
bigSub(a, b) == bigTrim(subBorrow(a, b, 0))

RECURSIVE cmpFromTop(_, _)
cmpFromTop(a, b) ==
  IF a = <<>> THEN 0
  ELSE IF a[Len(a)] < b[Len(a)] THEN -1
  ELSE IF a[Len(a)] > b[Len(a)] THEN 1
  ELSE cmpFromTop(front(a), front(b))

\* -1, 0, 1 as a < b, a = b, a > b
bigCmp(a, b) ==
  IF Len(a) < Len(b) THEN -1 ELSE IF Len(a) > Len(b) THEN 1 ELSE cmpFromTop(a, b)

bigLeq(a, b) == bigCmp(a, b) <= 0

RECURSIVE mulCarry(_, _, _)
mulDigit(prod, ta, m) == <<prod % Base>> \o mulCarry(ta, m, prod \div Base)
mulCarry(a, m, c) == IF a = <<>> THEN bigOf(c) ELSE mulDigit(Head(a) * m + c, Tail(a), m)

\* a * m, m a small whole number
bigMulSmall(a, m) == IF m = 0 THEN <<>> ELSE mulCarry(a, m, 0)

\* the sum of the products a[i] * b[j] with i + j = k + 1, from i upwards
RECURSIVE columnSum(_, _, _, _)
columnSum(a, b, k, i) ==
  IF i > Len(a) \/ i > k THEN 0
  ELSE (IF k + 1 - i <= Len(b) THEN a[i] * b[k + 1 - i] ELSE 0) + columnSum(a, b, k, i + 1)

\* a * b: the columns of the long multiplication, then the carries
bigMul(a, b) ==
  IF a = <<>> \/ b = <<>> THEN <<>>
  ELSE addCarry([k \in 1..(Len(a) + Len(b) - 1) |-> columnSum(a, b, k, 1)], <<>>, 0)

RECURSIVE divFromTop(_, _, _)
divStep(higher, d, cur) == divFromTop(higher, d, cur % d) \o <<cur \div d>>
divFromTop(a, d, rem) ==
  IF a = <<>> THEN <<>> ELSE divStep(front(a), d, rem * Base + a[Len(a)])

\* floor(a / d), d a small whole number
bigDivSmall(a, d) == bigTrim(divFromTop(a, d, 0))

\* m * b <= a
fits(a, b, m) == bigLeq(bigMul(b, bigOf(m)), a)

\* the largest decimal digit d with (acc + d * unit) * b <= a
quotientDigit(a, b, acc, unit) ==
  CHOOSE d \in 0..9 : fits(a, b, acc + d * unit) /\ (d = 9 \/ ~fits(a, b, acc + (d + 1) * unit))

\* the long division of a by b: the digits of the quotient from unit downwards
RECURSIVE quotientFrom(_, _, _, _)
quotientFrom(a, b, acc, unit) ==
  IF unit = 0 \/ acc < 0 THEN acc
  ELSE quotientFrom(a, b, acc + unit * quotientDigit(a, b, acc, unit), unit \div 10)

\* floor(a / b) for b > 0 and a quotient below 10 * HighestUnit
HighestUnit == 100000000
bigFloorDiv(a, b) == quotientFrom(a, b, 0, HighestUnit)

(* --------------------------- fractional numbers ------------------------ *)
\* A number that is not negative, kept to FractionLimbs base-1000 digits
\* after the point: the whole number floor(x * Base^FractionLimbs).
fixOne == [i \in 1..FractionLimbs |-> 0] \o <<1>>

\* the number of n tenths
fixOfTenths(n) == bigDivSmall(bigMul(bigOf(n), fixOne), 10)

dropLimbs(a, k) == IF Len(a) <= k THEN <<>> ELSE SubSeq(a, k + 1, Len(a))

\* x * y
fixMul(x, y) == dropLimbs(bigMul(x, y), FractionLimbs)

fixSquare(x) == fixMul(x, x)

\* acc * Math.pow(x, n), n a whole number: by repeated squaring; a product
\* that is 0 stays 0
RECURSIVE powTimes(_, _, _)
powTimes(x, n, acc) ==
  IF n = 0 \/ acc = <<>> \/ x = <<>> THEN acc
  ELSE IF n % 2 = 1 THEN powTimes(x, n - 1, fixMul(acc, x))
  ELSE powTimes(fixSquare(x), n \div 2, acc)

\* Math.pow(x, n), n a whole number
fixPow(x, n) == powTimes(x, n, fixOne)


(* ----------------------------- calculation ----------------------------- *)
\* A value before Math.round: the quotient num / den of two numbers that
\* are not negative, den above 0, or NaN, or Infinity.
Quotient(num, den) == [t |-> "number", num |-> num, den |-> den]
QuotientNaN == [t |-> "NaN", num |-> <<>>, den |-> <<>>]
QuotientInfinity == [t |-> "Infinity", num |-> <<>>, den |-> <<>>]

\* num / den: 0 / 0 is NaN, x / 0 is Infinity
divide(num, den) ==
  IF den # <<>> THEN Quotient(num, den)
  ELSE IF num = <<>> THEN QuotientNaN ELSE QuotientInfinity

\* q * m, m a whole number above 0
timesWhole(q, m) == IF q.t = "number" THEN Quotient(bigMulSmall(q.num, m), q.den) ELSE q

\* a - b, or 0 where the digits that were dropped make it fall below 0
bigMonus(a, b) == IF bigLeq(b, a) THEN bigSub(a, b) ELSE <<>>

\* q - x
minus(q, x) ==
  IF q.t = "number" THEN Quotient(bigMonus(q.num, fixMul(x, q.den)), q.den) ELSE q

\* Math.round(q): floor(q + 1/2), a number of whole units
MathRound(q) ==
  IF q.t = "NaN" THEN NaN
  ELSE IF q.t = "Infinity" THEN Infinity
  ELSE Num(10 * bigFloorDiv(bigAdd(bigMulSmall(q.num, 2), q.den), bigMulSmall(q.den, 2)))

\* InterestRate / 100 / 12
monthlyRate(bank) == bigDivSmall(bigDivSmall(fixOfTenths(bank.InterestRate.n), 100), 12)

\* LoanTerm * 12, with LoanTerm * 1 in its place
months_years(bank) == (bank.LoanTerm.n \div 10) * 1

\* LoanTerm * 12
months(bank) == (bank.LoanTerm.n \div 10) * 12

\* MaximumLoan - MinimumDownPayment
principal(bank) == fixOfTenths(bank.MaximumLoan.n - bank.MinimumDownPayment.n)

\* Math.pow(1 + InterestRate / 100 / 12, LoanTerm * 12)
growth(bank) == fixPow(bigAdd(fixOne, monthlyRate(bank)), months(bank))

\* principal * rate * growth / (growth - 1), given the growth
paymentFor(bank, g) ==
  divide(fixMul(fixMul(principal(bank), monthlyRate(bank)), g), bigSub(g, fixOne))

\* const monthlyPayment
monthlyPayment(bank) == paymentFor(bank, growth(bank))

\* const totalInterest
totalInterest(bank) == minus(timesWhole(monthlyPayment(bank), months(bank)), principal(bank))

\* const downPaymentPercentage
downPaymentPercentage(bank) ==
  timesWhole(divide(bigOf(bank.MinimumDownPayment.n), bigOf(bank.MaximumLoan.n)), 100)

\* the value of useMemo: calculatedValues
calculatedValues(bank) ==
  [monthlyPayment |-> MathRound(monthlyPayment(bank)),
   totalInterest |-> MathRound(totalInterest(bank)),
   downPaymentPercentage |-> MathRound(downPaymentPercentage(bank))]

\* banks to calculate for: rates 0, 0.1, 3.5, 4.5 and 100 per cent, loans
\* of 0, 120000, 450000 and 500000, down payments 0 and 50000, terms of 1,
\* 10 and 30 years
CalcBanks ==
  {bank \in [BankName : {Str(<<"A", "b">>)},
             InterestRate : {Num(0), Num(1), Num(35), Num(45), Num(1000)},
             MaximumLoan : {Num(0), Num(1200000), Num(4500000), Num(5000000)},
             MinimumDownPayment : {Num(0), Num(500000)},
             LoanTerm : {Num(10), Num(100), Num(300)}] :
     bank.MinimumDownPayment.n <= bank.MaximumLoan.n}

CalcInit ==
  /\ StoreInit
  /\ FileManagerIdle
  /\ DataFetcherIdle
  /\ \E bank \in CalcBanks : call = NewCall("calculatedValues", bank, <<>>)

\* the card of the bank renders and useMemo computes calculatedValues
Calculate ==
  /\ call.fn = "calculatedValues" /\ ~call.done
  /\ call' = [call EXCEPT !.done = TRUE, !.result = calculatedValues(call.arg)]
  /\ UNCHANGED <<storeVars, fmVars, dfVars>>

CalcNext == Calculate

CalcSpec == CalcInit /\ [][CalcNext]_vars

(* ------------------------------ claims --------------------------------- *)
\* a card has computed its values
CalcDone == call.fn = "calculatedValues" /\ call.done

\* the whole units of a number held in tenths
units(v) == v.n \div 10

\* |a - b|
bigDist(a, b) == IF bigLeq(a, b) THEN bigSub(b, a) ELSE bigSub(a, b)

\* m is num / den rounded to a whole number: |m - num / den| <= 1/2, with
\* one part in 2000 allowed for the digits the arithmetic drops
RoundsTo(m, num, den) ==
  bigLeq(bigMulSmall(bigDist(bigMul(den, bigOf(m)), num), 2000), bigMulSmall(den, 1001))

\* claim C18: for an interest rate of 0 the calculation returns
\* monthlyPayment = principal / (termYears * 12), which is exactly 1000 for
\* a principal of 120000 over 10 years, and totalInterest = 0, not the
\* undefined value of the closed formula.
C18_ZeroRateSpecialCase ==
  (CalcDone /\ call.arg.InterestRate.n = 0) =>
    /\ call.result.monthlyPayment.t = "number"
    /\ (2 * units(call.result.monthlyPayment) - 1) * units(call.arg.LoanTerm) * 12
         <= 2 * (units(call.arg.MaximumLoan) - units(call.arg.MinimumDownPayment))
    /\ 2 * (units(call.arg.MaximumLoan) - units(call.arg.MinimumDownPayment))
         <= (2 * units(call.result.monthlyPayment) + 1) * units(call.arg.LoanTerm) * 12
    /\ (/\ units(call.arg.MaximumLoan) - units(call.arg.MinimumDownPayment) = 120000
        /\ units(call.arg.LoanTerm) = 10) => call.result.monthlyPayment = Num(10000)
    /\ call.result.totalInterest = Num(0)

\* the quantities of the formula, from the inputs: P, n, r, (1 + r)^n,
\* (1 + r)^n - 1 and P * r * (1 + r)^n
C19_P(bank) == units(bank.MaximumLoan) - units(bank.MinimumDownPayment)
C19_n(bank) == units(bank.LoanTerm) * 12
C19_r(bank) == bigDivSmall(fixOfTenths(bank.InterestRate.n), 1200)
C19_g(bank) == fixPow(bigAdd(fixOne, C19_r(bank)), C19_n(bank))
C19_den(bank) == bigSub(C19_g(bank), fixOne)
C19_num(bank) == fixMul(fixMul(bigMul(fixOne, bigOf(C19_P(bank))), C19_r(bank)), C19_g(bank))

\* the bank of the example: 500000 - 50000 at 4.5 per cent over 30 years
C19_IsExample(bank) ==
  C19_P(bank) = 450000 /\ bank.InterestRate = Num(45) /\ units(bank.LoanTerm) = 30

\* monthlyPayment = round(P * r * (1 + r)^n / ((1 + r)^n - 1)), and 2280
\* within 1 for the example
C19_PaymentRounded(bank, result) ==
  /\ result.monthlyPayment.t = "number"
  /\ RoundsTo(units(result.monthlyPayment), C19_num(bank), C19_den(bank))
  /\ C19_IsExample(bank) => units(result.monthlyPayment) \in 2279..2281

\* totalInterest = round(p * n - P), p the payment before it is rounded
C19_InterestOfExactPayment(bank, result) ==
  /\ result.totalInterest.t = "number"
  /\ RoundsTo(units(result.totalInterest) + C19_P(bank),
              bigMulSmall(C19_num(bank), C19_n(bank)), C19_den(bank))

\* totalInterest = round(monthlyPayment * n - P), monthlyPayment the value
\* that is returned
C19_InterestOfReturnedPayment(bank, result) ==
  /\ result.totalInterest.t = "number"
  /\ units(result.totalInterest) = units(result.monthlyPayment) * C19_n(bank) - C19_P(bank)

\* claim C19 as stated: for a rate above 0 the calculation returns
\* monthlyPayment = round(P*r*(1+r)^n / ((1+r)^n - 1)) and totalInterest =
\* round(monthlyPayment*n - P), with P = MaximumLoan - MinimumDownPayment,
\* r = rate/100/12 and n = LoanTerm*12; for P = 450000, rate 4.5 and 30
\* years the monthly payment is 2280 within 1.
C19_AsStated ==
  (CalcDone /\ call.arg.InterestRate.n > 0) =>
    /\ C19_PaymentRounded(call.arg, call.result)
    /\ C19_InterestOfReturnedPayment(call.arg, call.result)

\* claim C19, amended: for a rate above 0 the calculation returns
\* monthlyPayment = round(p) and totalInterest = round(p*n - P), where
\* p = P*r*(1+r)^n / ((1+r)^n - 1) is the payment before rounding, with
\* P = MaximumLoan - MinimumDownPayment, r = rate/100/12 and n = LoanTerm*12;
\* for P = 450000, rate 4.5 and 30 years the monthly payment is 2280 within 1.
C19_Amortization ==
  (CalcDone /\ call.arg.InterestRate.n > 0) =>
    /\ C19_PaymentRounded(call.arg, call.result)
    /\ C19_InterestOfExactPayment(call.arg, call.result)

\* the example has been calculated and its payment and interest are shown
C19_Witness ==
  /\ CalcDone
  /\ C19_IsExample(call.arg)
  /\ call.result.monthlyPayment = Num(22800)
  /\ call.result.totalInterest = Num(3708300)

\* claim C26: for every bank offer that satisfies the data model, a maximum
\* loan of 0 and a minimum down payment equal to the maximum loan included,
\* the calculation yields no output that is not finite, and
\* downPaymentPercentage is a whole number between 0 and 100 equal to
\* round(minimumDownPayment / maximumLoan * 100).
C26_FiniteOutputsAndDownPaymentShare ==
  CalcDone =>
    /\ call.result.monthlyPayment.t = "number"
    /\ call.result.totalInterest.t = "number"
    /\ call.result.downPaymentPercentage.t = "number"
    /\ call.result.downPaymentPercentage.n % 10 = 0
    /\ units(call.result.downPaymentPercentage) \in 0..100
    /\ RoundsTo(units(call.result.downPaymentPercentage),
                bigMulSmall(bigOf(call.arg.MinimumDownPayment.n), 100),
                bigOf(call.arg.MaximumLoan.n))

(* ====================================================================== *)
(* The add-bank form (NewBankCard): validation at submit                  *)
(* ====================================================================== *)
FormFields == {"BankName", "MaximumLoan", "MinimumDownPayment", "LoanTerm", "InterestRate"}

UpperCase ==
  {"A", "B", "C", "D", "E", "F", "G", "H", "I", "J", "K", "L", "M",
   "N", "O", "P", "Q", "R", "S", "T", "U", "V", "W", "X", "Y", "Z"}

\* required, with the numeric fields left out
requiredError_nameOnly(field, text) ==
  IF field = "BankName" /\ trim(text) = <<>> THEN {<<field, "required">>} ELSE {}

\* required: the field is empty, or the name is blank
requiredError(field, text) ==
  IF text = <<>> \/ (field = "BankName" /\ trim(text) = <<>>)
  THEN {<<field, "required">>} ELSE {}

\* format: the first character of the name is not upper-case
formatError(field, text) ==
  IF field = "BankName" /\ text # <<>> /\ Head(text) \notin UpperCase
  THEN {<<field, "format">>} ELSE {}

\* the values a field accepts: a rate in [0, 100], amounts from 0, a term
\* from 1
inRange(field, v) ==
  /\ ~isNaN(v)
  /\ CASE field = "InterestRate" -> 0 <= v.n /\ v.n <= 1000
        [] field = "LoanTerm" -> 10 <= v.n
        [] OTHER -> 0 <= v.n

\* range: the field holds a number outside the values it accepts
rangeError(field, text) ==
  IF field # "BankName" /\ text # <<>> /\ ~inRange(field, ToNumber(Str(text)))
  THEN {<<field, "range">>} ELSE {}

\* duplicate: the name is the name of a bank of the collection
duplicateError(field, text, items) ==
  IF field = "BankName" /\ isDuplicateName(text, items)
  THEN {<<field, "duplicate">>} ELSE {}

\* every rule of a field
fieldErrors(field, text, items) ==
  requiredError(field, text) \cup formatError(field, text)
    \cup rangeError(field, text) \cup duplicateError(field, text, items)

\* the error mapping of the form: every rule of every field
validateForm(values, items) ==
  UNION {fieldErrors(field, values[field], items) : field \in FormFields}

\* what the user has typed: each field empty, valid or not valid
FormValues ==
  [BankName : {<<>>, <<" ">>, <<"A", "b">>, <<"a", "b">>, <<"E", "b">>},
   MaximumLoan : {<<>>, <<"4", "0", "0">>, <<"-", "1">>},
   MinimumDownPayment : {<<>>, <<"4", "0">>, <<"-", "1">>},
   LoanTerm : {<<>>, <<"2", "5">>, <<"0">>},
   InterestRate : {<<>>, <<"4", ".", "5">>, <<"1", "5", "0">>, <<"-", "1">>}]

\* the collection the store is created with: empty, or one bank
StoredCollections == {<<>>, <<[id |-> 1, BankName |-> <<"E", "b">>]>>}

FormInit ==
  /\ \E items \in StoredCollections :
       /\ banks = [initialState EXCEPT !.items = items]
       /\ prev = [initialState EXCEPT !.items = items]
  /\ ops = <<>>
  /\ lastAction = [type |-> INIT_TYPE, payload |-> Null, before |-> INIT_TYPE]
  /\ form = [name |-> NoSubmit, error |-> Null, itemsAt |-> <<>>,
             dispatched |-> FALSE, itemsAfter |-> <<>>]
  /\ FileManagerIdle
  /\ DataFetcherIdle
  /\ \E values \in FormValues : call = NewCall("handleSubmit", values, <<>>)

\* click on Add Bank: the errors are set, and addNewBank is dispatched
\* when there are none
handleSubmit ==
  /\ call.fn = "handleSubmit" /\ ~call.done
  /\ call' = [call EXCEPT !.done = TRUE,
                          !.result = [errors |-> validateForm(call.arg, banks.items),
                                      dispatched |-> validateForm(call.arg, banks.items) = {}]]
  /\ IF validateForm(call.arg, banks.items) = {}
     THEN StartRun("addNewBank", call.arg.BankName)
     ELSE UNCHANGED <<banks, ops, lastAction, prev>>
  /\ UNCHANGED <<form, fmVars, dfVars>>

FormNext == handleSubmit

FormSpec == FormInit /\ [][FormNext]_vars

\* the form was submitted with all five fields empty
EmptyFormSubmitted ==
  /\ call.fn = "handleSubmit" /\ call.done
  /\ \A field \in FormFields : call.arg[field] = <<>>

\* claim C20: submitting the add-bank form with all five fields empty gives
\* exactly five errors, one required error for each of name, maximum loan,
\* minimum down payment, loan term and interest rate, no format, range or
\* duplicate error, and addNewBank is not dispatched.
C20_EmptyFormFiveRequired ==
  EmptyFormSubmitted =>
    /\ call.result.errors = {<<field, "required">> : field \in FormFields}
    /\ Cardinality(call.result.errors) = 5
    /\ ~call.result.dispatched
    /\ ops = <<>>

\* the empty form was submitted over a collection that holds a bank, and
\* five errors are shown
C20_Witness ==
  /\ EmptyFormSubmitted
  /\ banks.items # <<>>
  /\ Cardinality(call.result.errors) = 5

\* a form filled in with values that pass is dispatched
C20_WitnessDispatched ==
  /\ call.fn = "handleSubmit" /\ call.done
  /\ call.result.dispatched
  /\ Len(ops) = 1


(* ====================================================================== *)
(* DataFetcher (src/components/DataFetcher/index.jsx)                     *)
(* ====================================================================== *)
\* the functions a parent passes as fetchFunction: two that return a promise,
\* each with the value its promise resolves with, and one that throws when
\* it is called
FetchFunctions ==
  {[name |-> "f1", throws |-> FALSE, value |-> "first", error |-> NoRejection],
   [name |-> "f2", throws |-> FALSE, value |-> "second", error |-> NoRejection],
   [name |-> "fThrow", throws |-> TRUE, value |-> "null",
    error |-> [message |-> "Synchronous error"]]}

\* what a promise is rejected with: an Error with a message, an Error
\* without one, and a string
Rejections == {[message |-> "Network error"], [message |-> ""], [message |-> "undefined"]}

DefaultMessage == "An error occurred while fetching data"

\* error.message || 'An error occurred while fetching data'
messageOrDefault(error) ==
  IF error.message \in {"", "undefined"} THEN DefaultMessage ELSE error.message

\* this.setState({ loading: true, error: null })
fetchStarted(state) == [state EXCEPT !.loading = TRUE, !.error = "null"]

\* this.setState({ data, loading: false })
fetchResolved(state, data) == [state EXCEPT !.data = data, !.loading = FALSE]

\* the catch block, with data reset
fetchFailed_resetsData(state, error) ==
  [state EXCEPT !.data = "null", !.error = messageOrDefault(error), !.loading = FALSE]

\* this.setState({ error: error.message || '...', loading: false })
fetchFailed(state, error) ==
  [state EXCEPT !.error = messageOrDefault(error), !.loading = FALSE]

\* the state of the component: data, loading, error
stateOf(component) ==
  [data |-> component.data, loading |-> component.loading, error |-> component.error]

\* the component with its state replaced
withState(component, state) ==
  [component EXCEPT !.data = state.data, !.loading = state.loading, !.error = state.error]

\* the step of DataFetcher that was taken last
lastStep(kind, fn, value, error, component) ==
  [kind |-> kind, fn |-> fn, value |-> value, error |-> error,
   before |-> stateOf(component)]

\* this.fetchData() on a component with its props: nothing without a
\* fetchFunction; the catch block at once when the function throws; else
\* loading, with the promise of the function pending
fetchData(component) ==
  IF component.fetchFunction = NoFunction
  THEN /\ fetcher' = component
       /\ fetches' = [fetches EXCEPT !.last = lastStep("none given", NoFunction, "null", NoRejection, component)]
  ELSE IF component.fetchFunction.throws
  THEN /\ fetcher' = withState(component, fetchFailed(fetchStarted(stateOf(component)),
                                                     component.fetchFunction.error))
       /\ fetches' = [fetches EXCEPT
                        !.failed = TRUE,
                        !.last = lastStep("threw", component.fetchFunction, "null",
                                          component.fetchFunction.error, component)]
  ELSE /\ fetches.started < MaxFetches
       /\ fetcher' = withState(component, fetchStarted(stateOf(component)))
       /\ fetches' = [fetches EXCEPT
                        !.started = @ + 1,
                        !.pending = @ \cup {[id |-> fetches.started + 1,
                                             fn |-> component.fetchFunction]},
                        !.last = lastStep("started", component.fetchFunction, "null", NoRejection,
                                          component)]

DFInit ==
  /\ StoreInit
  /\ call = IdleCall
  /\ FileManagerIdle
  /\ \E fn \in FetchFunctions \cup {NoFunction} :
       fetcher = [data |-> dataFetcherState.data, loading |-> dataFetcherState.loading,
                  error |-> dataFetcherState.error, fetchFunction |-> fn, mounted |-> FALSE]
  /\ fetches = [pending |-> {}, started |-> 0, failed |-> FALSE,
                last |-> lastStep("(none)", NoFunction, "null", NoRejection,
                                  dataFetcherState)]

\* componentDidMount
Mount ==
  /\ ~fetcher.mounted
  /\ fetchData([fetcher EXCEPT !.mounted = TRUE])
  /\ UNCHANGED <<storeVars, call, fmVars>>

\* the child calls refetch
Refetch ==
  /\ fetcher.mounted
  /\ fetchData(fetcher)
  /\ UNCHANGED <<storeVars, call, fmVars>>

\* the parent renders with another fetchFunction: componentDidUpdate
ChangeFetchFunction ==
  \E fn \in FetchFunctions \cup {NoFunction} :
    /\ fetcher.mounted
    /\ fn # fetcher.fetchFunction
    /\ fetchData([fetcher EXCEPT !.fetchFunction = fn])
    /\ UNCHANGED <<storeVars, call, fmVars>>

\* the promise of a fetch resolves and fetchData resumes
FetchResolves ==
  \E fetch \in fetches.pending :
    /\ fetcher' = withState(fetcher, fetchResolved(stateOf(fetcher), fetch.fn.value))
    /\ fetches' = [fetches EXCEPT
                     !.pending = @ \ {fetch},
                     !.last = lastStep("resolved", fetch.fn, fetch.fn.value, NoRejection,
                                       fetcher)]
    /\ UNCHANGED <<storeVars, call, fmVars>>

\* the promise of a fetch is rejected and the catch block runs
FetchRejects ==
  \E fetch \in fetches.pending, error \in Rejections :
    /\ fetcher' = withState(fetcher, fetchFailed(stateOf(fetcher), error))
    /\ fetches' = [fetches EXCEPT
                     !.pending = @ \ {fetch},
                     !.failed = TRUE,
                     !.last = lastStep("rejected", fetch.fn, "null", error, fetcher)]
    /\ UNCHANGED <<storeVars, call, fmVars>>

DFNext ==
  \/ Mount
  \/ Refetch
  \/ ChangeFetchFunction
  \/ FetchResolves
  \/ FetchRejects

DFSpec == DFInit /\ [][DFNext]_vars


C22_WitnessThrew ==
  /\ fetches.last.kind = "threw"
  /\ fetcher.data # "null"
  /\ fetcher.error = "Synchronous error"

\* the fetchFunction was taken away and the state stayed as it was
C22_WitnessNoneGiven ==
  /\ fetches.last.kind = "none given"
  /\ fetcher.data # "null"

\* fetches were started and every one of them has resolved
AllFetchesResolved == fetches.started > 0 /\ fetches.pending = {} /\ ~fetches.failed

\* claim C23: after the fetchFunction prop of DataFetcher changes from f1 to
\* f2, once all started fetches have resolved the data held by the component
\* is the result of f2, under every order in which the fetch of f1 and the
\* fetch of f2 complete.
C23_DataOfCurrentFunction ==
  (AllFetchesResolved /\ fetcher.fetchFunction \in FetchFunctions) =>
    fetcher.data = fetcher.fetchFunction.value

\* claim C24: in DataFetcher, loading is true in every state in which at
\* least one started fetch has neither resolved nor rejected, including when
\* a refetch or a fetchFunction change starts a fetch that overlaps an
\* earlier one.
C24_LoadingWhilePending == fetches.pending # {} => fetcher.loading

====
